---- MODULE Spec2Model ----
(***************************************************************************)
(* Model of incus-osd/internal/systemd/networkd.go: the synthesizer of     *)
(* systemd-networkd artifacts, the artifact writer, the two convergence    *)
(* waiters and the apply orchestrator.                                     *)
(*                                                                         *)
(* Go strings on which the code works character by character (hardware     *)
(* addresses, address specs, observed addresses) are sequences of          *)
(* one-character strings; all other strings are TLA+ strings, joined       *)
(* with \o as fmt.Sprintf joins them.                                      *)
(***************************************************************************)
EXTENDS Integers, Sequences, FiniteSets, TLC

\* A pointer (networkCfg, DNS, NTP, Proxy) is the empty sequence when nil and the
\* one-element sequence of its target otherwise.
NIL == <<>>
Ptr(v) == <<v>>
Deref(p) == p[1]

(***************************************************************************)
(* String helpers                                                          *)
(***************************************************************************)

\* string(chars): the Go string made of the characters of cs.
RECURSIVE Str(_)
Str(cs) == IF cs = <<>> THEN "" ELSE Head(cs) \o Str(Tail(cs))

UpperChars == <<"A", "B", "C", "D", "E", "F", "G", "H", "I", "J", "K", "L", "M",
                "N", "O", "P", "Q", "R", "S", "T", "U", "V", "W", "X", "Y", "Z">>
LowerChars == <<"a", "b", "c", "d", "e", "f", "g", "h", "i", "j", "k", "l", "m",
                "n", "o", "p", "q", "r", "s", "t", "u", "v", "w", "x", "y", "z">>

\* strings.ToLower
ToLower(cs) ==
    [k \in 1..Len(cs) |->
        IF \E u \in 1..Len(UpperChars) : UpperChars[u] = cs[k]
        THEN LowerChars[CHOOSE u \in 1..Len(UpperChars) : UpperChars[u] = cs[k]]
        ELSE cs[k]]

\* strings.ReplaceAll(s, old, "") for a one-character old
RECURSIVE RemoveAllChar(_, _)
RemoveAllChar(cs, old) ==
    IF cs = <<>> THEN <<>>
    ELSE IF Head(cs) = old THEN RemoveAllChar(Tail(cs), old)
    ELSE <<Head(cs)>> \o RemoveAllChar(Tail(cs), old)

\* strings.HasPrefix
HasPrefix(cs, prefix) ==
    Len(cs) >= Len(prefix) /\ SubSeq(cs, 1, Len(prefix)) = prefix

\* strings.Contains(s, c) for a one-character c
ContainsChar(cs, c) == \E k \in 1..Len(cs) : cs[k] = c

\* strings.Join(elems, sep)
RECURSIVE JoinStrings(_, _)
JoinStrings(elems, sep) ==
    IF elems = <<>> THEN ""
    ELSE IF Len(elems) = 1 THEN elems[1]
    ELSE elems[1] \o sep \o JoinStrings(Tail(elems), sep)

\* strconv.FormatBool
FormatBool(b) == IF b THEN "true" ELSE "false"

\* append(a, b...) over a sequence of sequences
RECURSIVE Flatten(_)
Flatten(ss) == IF ss = <<>> THEN <<>> ELSE Head(ss) \o Flatten(Tail(ss))

\* ret += piece, for each piece in order
Concat(pieces) == JoinStrings(pieces, "")

\* strippedHwaddr := strings.ToLower(strings.ReplaceAll(hwaddr, ":", ""))
StrippedHwaddr(hwaddr) == Str(ToLower(RemoveAllChar(hwaddr, ":")))

\* mtuString
MTUString(mtu) == IF mtu # 0 THEN "MTUBytes=" \o ToString(mtu) ELSE ""

(***************************************************************************)
(* Synthesizer: the rendering helpers                                      *)
(***************************************************************************)

\* slices.Sort
RECURSIVE InsertSorted(_, _)
InsertSorted(x, s) ==
    IF s = <<>> THEN <<x>>
    ELSE IF x <= Head(s) THEN <<x>> \o s
    ELSE <<Head(s)>> \o InsertSorted(x, Tail(s))

RECURSIVE SortInts(_)
SortInts(s) == IF s = <<>> THEN <<>> ELSE InsertSorted(Head(s), SortInts(Tail(s)))

\* mutant: duplicates are kept
CompactKeepingDuplicates(s) == s

\* slices.Compact: drops consecutive duplicates
RECURSIVE Compact(_)
Compact(s) ==
    IF Len(s) <= 1 THEN s
    ELSE IF s[1] = s[2] THEN Compact(Tail(s))
    ELSE <<s[1]>> \o Compact(Tail(s))

\* the tags appended from the VLAN definitions whose Parent is the bridge
RECURSIVE ParentedIDs(_, _)
ParentedIDs(bridgeName, vlans) ==
    IF vlans = <<>> THEN <<>>
    ELSE (IF Head(vlans).Parent = bridgeName THEN <<Head(vlans).ID>> ELSE <<>>)
         \o ParentedIDs(bridgeName, Tail(vlans))

\* vlanTags after slices.Sort and slices.Compact
BridgeVLANTags(bridgeName, specificVLAN, additionalVLANTags, vlans) ==
    Compact(SortInts((IF specificVLAN # 0 THEN <<specificVLAN>> ELSE <<>>)
                     \o additionalVLANTags
                     \o ParentedIDs(bridgeName, vlans)))

VLANBlock(tag) == "\n[BridgeVLAN]\n" \o "VLAN=" \o ToString(tag) \o "\n"

generateBridgeVLANContents(bridgeName, specificVLAN, additionalVLANTags, vlans) ==
    LET vlanTags == BridgeVLANTags(bridgeName, specificVLAN, additionalVLANTags, vlans)
    IN  IF Len(vlanTags) > 0
        THEN (IF specificVLAN # 0
              THEN "\n[BridgeVLAN]\n"
                   \o "PVID=" \o ToString(specificVLAN) \o "\n"
                   \o "EgressUntagged=" \o ToString(specificVLAN) \o "\n"
              ELSE "")
             \o Concat([k \in 1..Len(vlanTags) |-> VLANBlock(vlanTags[k])])
        ELSE ""

generateLinkSectionContents(addresses) ==
    IF Len(addresses) = 0 THEN "RequiredForOnline=no"
    ELSE
      LET expectsIPv4 ==
              \E k \in 1..Len(addresses) :
                  \/ Str(addresses[k]) = "dhcp4"
                  \/ /\ Str(addresses[k]) \notin {"dhcp4", "dhcp6", "slaac"}
                     /\ ContainsChar(addresses[k], ".")
          expectsIPv6 ==
              \E k \in 1..Len(addresses) :
                  \/ Str(addresses[k]) \in {"dhcp6", "slaac"}
                  \/ /\ Str(addresses[k]) \notin {"dhcp4", "dhcp6", "slaac"}
                     /\ ContainsChar(addresses[k], ":")
      IN  IF expectsIPv4 /\ expectsIPv6
          THEN "RequiredForOnline=yes\nRequiredFamilyForOnline=both"
          ELSE IF expectsIPv4
          THEN "RequiredForOnline=yes\nRequiredFamilyForOnline=ipv4"
          ELSE "RequiredForOnline=yes\nRequiredFamilyForOnline=ipv6"

StaticAddressLine(addr) ==
    IF Str(addr) \in {"dhcp4", "dhcp6", "slaac"} THEN ""
    ELSE "Address=" \o Str(addr) \o "\n"

processAddresses(addresses) ==
    LET hasDHCP4     == \E k \in 1..Len(addresses) : Str(addresses[k]) = "dhcp4"
        hasDHCP6     == \E k \in 1..Len(addresses) : Str(addresses[k]) = "dhcp6"
        acceptIPv6RA == \E k \in 1..Len(addresses) : Str(addresses[k]) = "slaac"
    IN  (IF Len(addresses) # 0
         THEN "LinkLocalAddressing=ipv6\n"
         ELSE "LinkLocalAddressing=no\n" \o "ConfigureWithoutCarrier=yes\n")
        \o Concat([k \in 1..Len(addresses) |-> StaticAddressLine(addresses[k])])
        \o (IF acceptIPv6RA THEN "IPv6AcceptRA=true\n" ELSE "IPv6AcceptRA=false\n")
        \o (IF hasDHCP4 /\ hasDHCP6 THEN "DHCP=yes\n"
            ELSE IF hasDHCP4 THEN "DHCP=ipv4\n"
            ELSE IF hasDHCP6 THEN "DHCP=ipv6\n"
            ELSE "")

RouteBlock(route) ==
    "\n[Route]\n"
    \o (IF route.Via = "dhcp4" THEN "Gateway=_dhcp4\n"
        ELSE IF route.Via = "slaac" THEN "Gateway=_ipv6ra\n"
        ELSE "Gateway=" \o route.Via \o "\n")
    \o "Destination=" \o route.To \o "\n"

processRoutes(routes) == Concat([k \in 1..Len(routes) |-> RouteBlock(routes[k])])

DNSLine(ns) == "DNS=" \o ns \o "\n"
NTPLine(ts) == "NTP=" \o ts \o "\n"

generateNetworkSectionContents(dns, ntp) ==
    (IF dns # NIL
     THEN (IF Len(Deref(dns).SearchDomains) > 0
           THEN "Domains=" \o JoinStrings(Deref(dns).SearchDomains, " ") \o "\n"
           ELSE "")
          \o Concat([k \in 1..Len(Deref(dns).Nameservers) |->
                         DNSLine(Deref(dns).Nameservers[k])])
     ELSE "")
    \o (IF ntp # NIL
        THEN Concat([k \in 1..Len(Deref(ntp).Timeservers) |->
                        NTPLine(Deref(ntp).Timeservers[k])])
        ELSE "")

generateTimesyncContents(ntp) ==
    IF Len(ntp.Timeservers) = 0 THEN ""
    ELSE "[Time]\nFallbackNTP=" \o JoinStrings(ntp.Timeservers, " ") \o "\n"

(***************************************************************************)
(* Synthesizer: the three artifact classes                                 *)
(***************************************************************************)

\* networkdConfigFile
ConfigFile(name, contents) == [Name |-> name, Contents |-> contents]

\* one systemd.link file: prefix is "00-en" for an interface, "01-en" for a bond member
LinkFile(prefix, hwaddr) ==
    ConfigFile(prefix \o StrippedHwaddr(hwaddr) \o ".link",
               "[Match]\nPermanentMACAddress=" \o Str(hwaddr)
               \o "\n\n[Link]\nNamePolicy=\nName=en" \o StrippedHwaddr(hwaddr) \o "\n")

generateLinkFileContents(networkCfg) ==
    [k \in 1..Len(networkCfg.Interfaces) |->
        LinkFile("00-en", networkCfg.Interfaces[k].Hwaddr)]
    \o Flatten([k \in 1..Len(networkCfg.Bonds) |->
        [m \in 1..Len(networkCfg.Bonds[k].Members) |->
            LinkFile("01-en", networkCfg.Bonds[k].Members[m])]])

\* bondMacAddr: the bond's Hwaddr, or its first member when that is empty
BondMacAddr(b) == IF b.Hwaddr = <<>> THEN b.Members[1] ELSE b.Hwaddr

\* the first element of devs named name, as a sequence of at most one element
FirstNamed(devs, name) ==
    LET hits == {k \in 1..Len(devs) : devs[k].Name = name}
    IN  IF hits = {} THEN <<>>
        ELSE <<devs[CHOOSE k \in hits : \A j \in hits : k <= j]>>

\* parentMACAddress of a VLAN: looked up in the interfaces, then in the bonds
ParentMACAddress(networkCfg, v) ==
    LET i == FirstNamed(networkCfg.Interfaces, v.Parent)
        fromInterface == IF i = <<>> THEN <<>> ELSE i[1].Hwaddr
        b == FirstNamed(networkCfg.Bonds, v.Parent)
    IN  IF fromInterface # <<>> THEN fromInterface
        ELSE IF b = <<>> THEN <<>>
        ELSE BondMacAddr(b[1])

BridgeNetdev(prefix, name, hwaddr, mtu) ==
    ConfigFile(prefix \o StrippedHwaddr(hwaddr) \o ".netdev",
               "[NetDev]\nName=" \o name \o "\nKind=bridge\nMACAddress=" \o Str(hwaddr)
               \o "\n" \o MTUString(mtu) \o "\n\n[Bridge]\nVLANFiltering=true\n")

BondNetdev(b) ==
    ConfigFile("11-bn" \o StrippedHwaddr(BondMacAddr(b)) \o ".netdev",
               "[NetDev]\nName=bn" \o StrippedHwaddr(BondMacAddr(b))
               \o "\nKind=bond\nMACAddress=" \o Str(BondMacAddr(b))
               \o "\n" \o MTUString(b.MTU) \o "\n\n[Bond]\nMode=" \o b.Mode \o "\n")

VLANNetdev(networkCfg, v) ==
    ConfigFile("12-" \o v.Name \o ".netdev",
               "[NetDev]\nName=" \o v.Name \o "\nKind=veth\nMACAddress="
               \o Str(ParentMACAddress(networkCfg, v))
               \o "\n" \o MTUString(v.MTU) \o "\n\n[Peer]\nName=vl" \o v.Name \o "\n")

generateNetdevFileContents(networkCfg) ==
    [k \in 1..Len(networkCfg.Interfaces) |->
        BridgeNetdev("10-br", networkCfg.Interfaces[k].Name,
                     networkCfg.Interfaces[k].Hwaddr, networkCfg.Interfaces[k].MTU)]
    \o Flatten([k \in 1..Len(networkCfg.Bonds) |->
        <<BondNetdev(networkCfg.Bonds[k]),
          BridgeNetdev("11-br", networkCfg.Bonds[k].Name,
                       BondMacAddr(networkCfg.Bonds[k]), networkCfg.Bonds[k].MTU)>>])
    \o [k \in 1..Len(networkCfg.VLANs) |-> VLANNetdev(networkCfg, networkCfg.VLANs[k])]

\* the addressing policy of a logical device (interface, bond or VLAN)
PolicyContents(networkCfg, dev) ==
    "[Match]\nName=" \o dev.Name \o "\n\n[Link]\n"
    \o generateLinkSectionContents(dev.Addresses)
    \o "\n\n[DHCP]\nClientIdentifier=mac\nRouteMetric=100\nUseMTU=true\n\n[Network]\n"
    \o generateNetworkSectionContents(networkCfg.DNS, networkCfg.NTP)
    \o processAddresses(dev.Addresses)
    \o (IF Len(dev.Routes) > 0 THEN processRoutes(dev.Routes) ELSE "")

InterfaceNetworkFiles(networkCfg, i) ==
    << ConfigFile("20-" \o i.Name \o ".network", PolicyContents(networkCfg, i)),
       ConfigFile("20-en" \o StrippedHwaddr(i.Hwaddr) \o ".network",
                  "[Match]\nName=en" \o StrippedHwaddr(i.Hwaddr)
                  \o "\n\n[Network]\nBridge=" \o i.Name
                  \o "\nLLDP=" \o FormatBool(i.LLDP)
                  \o "\nEmitLLDP=" \o FormatBool(i.LLDP) \o "\n"
                  \o generateBridgeVLANContents(i.Name, i.VLAN, i.VLANTags,
                                                networkCfg.VLANs)) >>

BondMemberNetworkFile(b, index) ==
    ConfigFile("21-bn" \o StrippedHwaddr(BondMacAddr(b)) \o "-dev" \o ToString(index)
               \o ".network",
               "[Match]\nName=en" \o StrippedHwaddr(b.Members[index + 1])
               \o "\n\n[Network]\nBond=bn" \o StrippedHwaddr(BondMacAddr(b))
               \o "\nLLDP=" \o FormatBool(b.LLDP)
               \o "\nEmitLLDP=" \o FormatBool(b.LLDP) \o "\n")

BondNetworkFiles(networkCfg, b) ==
    << ConfigFile("21-" \o b.Name \o ".network", PolicyContents(networkCfg, b)),
       ConfigFile("21-bn" \o StrippedHwaddr(BondMacAddr(b)) \o ".network",
                  "[Match]\nName=bn" \o StrippedHwaddr(BondMacAddr(b))
                  \o "\n\n[Network]\nBridge=" \o b.Name \o "\n"
                  \o generateBridgeVLANContents(b.Name, b.VLAN, b.VLANTags,
                                                networkCfg.VLANs)) >>
    \o [m \in 1..Len(b.Members) |-> BondMemberNetworkFile(b, m - 1)]

VLANNetworkFiles(networkCfg, v) ==
    << ConfigFile("22-vl" \o v.Name \o ".network",
                  "[Match]\nName=vl" \o v.Name
                  \o "\n\n[Network]\nBridge=" \o v.Parent
                  \o "\n\n[BridgeVLAN]\nVLAN=" \o ToString(v.ID)
                  \o "\nPVID=" \o ToString(v.ID)
                  \o "\nEgressUntagged=" \o ToString(v.ID) \o "\n"),
       ConfigFile("22-" \o v.Name \o ".network", PolicyContents(networkCfg, v)) >>

generateNetworkFileContents(networkCfg) ==
    Flatten([k \in 1..Len(networkCfg.Interfaces) |->
                InterfaceNetworkFiles(networkCfg, networkCfg.Interfaces[k])])
    \o Flatten([k \in 1..Len(networkCfg.Bonds) |->
                BondNetworkFiles(networkCfg, networkCfg.Bonds[k])])
    \o Flatten([k \in 1..Len(networkCfg.VLANs) |->
                VLANNetworkFiles(networkCfg, networkCfg.VLANs[k])])

(***************************************************************************)
(* Inputs: hardware addresses, address specs and network configurations    *)
(***************************************************************************)

MAC1 == <<"0","0",":","1","1",":","2","2",":","3","3",":","4","4",":","5","5">>
MAC2 == <<"A","A",":","B","B",":","C","C",":","D","D",":","E","E",":","F","F">>
MAC3 == <<"1","1",":","2","2",":","3","3",":","4","4",":","5","5",":","6","6">>

DHCP4   == <<"d","h","c","p","4">>
DHCP6   == <<"d","h","c","p","6">>
SLAAC   == <<"s","l","a","a","c">>
Static4 == <<"1","0",".","0",".","0",".","2","/","2","4">>
Static6 == <<"f","d","0","0",":",":","2","/","6","4">>

Interface(name, hwaddr, addresses, vlan, vlanTags) ==
    [Name |-> name, Hwaddr |-> hwaddr, MTU |-> 0, Addresses |-> addresses,
     Routes |-> <<>>, LLDP |-> FALSE, VLAN |-> vlan, VLANTags |-> vlanTags]

NoDevices == [Interfaces |-> <<>>, Bonds |-> <<>>, VLANs |-> <<>>,
              DNS |-> NIL, NTP |-> NIL, Proxy |-> NIL]

\* one interface configured by DHCPv4
CfgSingle ==
    [NoDevices EXCEPT !.Interfaces = <<Interface("br0", MAC1, <<DHCP4>>, 0, <<>>)>>]

\* an interface carrying VLANs, two VLAN devices, DNS, NTP and a proxy
CfgVLANs ==
    [Interfaces |-> <<Interface("br0", MAC2, <<>>, 20, <<30, 20, 10>>)>>,
     Bonds |-> <<>>,
     VLANs |-> << [Name |-> "lan", Parent |-> "br0", ID |-> 30, MTU |-> 1400,
                   Addresses |-> <<Static4>>,
                   Routes |-> <<[To |-> "0.0.0.0/0", Via |-> "10.0.0.1"]>>],
                  [Name |-> "vllan", Parent |-> "br0", ID |-> 10, MTU |-> 0,
                   Addresses |-> <<SLAAC, Static6>>, Routes |-> <<>>] >>,
     DNS |-> Ptr([Hostname |-> "host1", Domain |-> "example.org",
                  SearchDomains |-> <<"example.org">>, Nameservers |-> <<"10.0.0.53">>]),
     NTP |-> Ptr([Timeservers |-> <<"ntp1.example.org", "ntp2.example.org">>]),
     Proxy |-> Ptr([Servers |-> <<"proxy.example.org">>])]

\* a bond of two members without Hwaddr of its own, and an NTP section without servers
CfgBond ==
    [NoDevices EXCEPT
        !.Bonds = << [Name |-> "bond0", Hwaddr |-> <<>>, Members |-> <<MAC1, MAC3>>,
                      Mode |-> "802.3ad", MTU |-> 9000,
                      Addresses |-> <<DHCP4, DHCP6>>,
                      Routes |-> <<[To |-> "0.0.0.0/0", Via |-> "dhcp4"]>>,
                      LLDP |-> TRUE, VLAN |-> 0, VLANTags |-> <<>>] >>,
        !.DNS = Ptr([Hostname |-> "host2", Domain |-> "",
                     SearchDomains |-> <<>>, Nameservers |-> <<>>]),
        !.NTP = Ptr([Timeservers |-> <<>>])]

\* the configurations an apply is called with; NIL is the nil *SystemNetworkConfig
Configs == {NIL, Ptr(NoDevices), Ptr(CfgSingle), Ptr(CfgVLANs), Ptr(CfgBond)}

\* timeout of the online wait, in ticks of 500 ms
MaxTimeout == 2
Timeouts == 1..MaxTimeout

\* 5*time.Second, in ticks of 500 ms
RenameTimeout == 10

\* a time.Sleep(500 * time.Millisecond) and the calls around it take 1..MaxSleepTicks ticks
MaxSleepTicks == 2

\* the longest list of addresses `ip address show` reports for a device
MaxObserved == 2

(***************************************************************************)
(* State                                                                   *)
(***************************************************************************)

VARIABLES
    pc,            \* position of the one thread of control in ApplyNetworkConfiguration
    cfg,           \* networkCfg, the argument of the call in progress
    timeout,       \* timeout, the argument of the call in progress (ticks)
    cancelled,     \* whether ctx is done
    result,        \* the error ApplyNetworkConfiguration returned
    hostname,      \* the system's hostname ("" is the default)
    proxyEnv,      \* the proxy configuration the environment was last updated with
    dir,           \* SystemdNetworkConfigPath: whether it exists, and its files
    timesyncFile,  \* SystemdTimesyncConfigFile: NIL when absent, else its contents
    now,           \* time.Now(), in ticks since the running waiter was entered
    endTime,       \* endTime of the running waiter
    devicesToCheck,\* devicesToCheck of waitForNetworkOnline
    stuck,         \* the devices that never report the expected state during this wait
    started,       \* history: the steps and commands issued during this call
    completed,     \* history: the steps of this call that returned nil
    failed,        \* history: NIL, or the step of this call that returned an error
    lastRun,       \* history: the last command of waitForUdevInterfaceRename
    lastObs,       \* what the devices queried so far in this pass of the loop reported
    failedPolls,   \* history: the poll cycles of this wait in which a query failed
    device,        \* the device the loop of waitForNetworkOnline is at ("" outside it)
    render         \* a call of a rendering helper on its own: its arguments and result

vars == <<pc, cfg, timeout, cancelled, result, hostname, proxyEnv, dir, timesyncFile,
          now, endTime, devicesToCheck, stuck, started, completed, failed, lastRun,
          lastObs, failedPolls, device, render>>

system  == <<hostname, proxyEnv, dir, timesyncFile>>
waiters == <<now, endTime, devicesToCheck, stuck, lastRun, lastObs, failedPolls>>

\* error values
OK               == "nil"
NoResult         == "(no result)"
ErrNoConfig      == "no network configuration provided"
ErrRenameTimeout == "timed out waiting for udev to rename interface(s)"
ErrOnlineTimeout == "timed out waiting for network to come online"
ErrCanceled      == "context canceled"
ErrExit(cmd)     == cmd \o ": exit status 1"
ErrIO(op)        == op \o ": input/output error"

\* the steps of ApplyNetworkConfiguration, in the order of the code
Steps == <<"SetHostname", "UpdateEnvironment", "generateNetworkConfiguration",
           "waitForUdevInterfaceRename", "RestartUnit systemd-networkd",
           "RestartUnit systemd-timesyncd", "waitForNetworkOnline">>

\* what a command run with ctx returns: it fails once ctx is done, and may fail anyhow
RunCommandContext(cmd) ==
    IF cancelled THEN {ErrCanceled} ELSE {OK, ErrExit(cmd)}

NoRun  == [cmd |-> "", err |-> OK]
NoObs  == <<>>
NoDir  == [exists |-> FALSE, files |-> <<>>]
NoRender == [fn |-> "", args |-> <<>>, done |-> FALSE, ret |-> ""]

Init ==
    /\ pc = "idle"
    /\ cfg = NIL
    /\ timeout = 1
    /\ cancelled = FALSE
    /\ result = NoResult
    /\ hostname = ""
    /\ proxyEnv = NIL
    /\ dir = NoDir
    /\ timesyncFile = NIL
    /\ now = 0
    /\ endTime = 0
    /\ devicesToCheck = <<>>
    /\ stuck = {}
    /\ started = {}
    /\ completed = {}
    /\ failed = NIL
    /\ lastRun = NoRun
    /\ lastObs = NoObs
    /\ failedPolls = 0
    /\ device = ""
    /\ render = NoRender

(***************************************************************************)
(* ApplyNetworkConfiguration: entry and the steps before the waiters       *)
(***************************************************************************)

\* mutant: the error of a step is not checked
ProceedIgnoringError(err, next) == next

\* `if err != nil { return err }`: where control goes after a step returned err
Proceed(err, next) == IF err # OK THEN "returned" ELSE next

\* a step of the orchestrator returned err
StepReturns(step, err, next) ==
    /\ pc' = Proceed(err, next)
    /\ result' = IF err # OK THEN err ELSE result
    /\ completed' = IF err = OK THEN completed \cup {step} ELSE completed
    /\ failed' = IF err # OK THEN Ptr([step |-> step, err |-> err]) ELSE failed

\* mutant: the nil check is missing
EntryWithoutNilCheck(networkCfg) == "SetHostname"

\* where a call starts: `if networkCfg == nil { return errors.New(...) }`
Entry(networkCfg) == IF networkCfg = NIL THEN "returned" ELSE "SetHostname"

\* a caller invokes ApplyNetworkConfiguration(ctx, networkCfg, t)
Call(networkCfg, t) ==
    /\ pc = "idle"
    /\ pc' = Entry(networkCfg)
    /\ cfg' = networkCfg
    /\ timeout' = t
    /\ cancelled' = FALSE
    /\ result' = IF Entry(networkCfg) = "returned" THEN ErrNoConfig ELSE NoResult
    /\ started' = {}
    /\ completed' = {}
    /\ failed' = NIL
    /\ now' = 0
    /\ endTime' = 0
    /\ devicesToCheck' = <<>>
    /\ stuck' = {}
    /\ lastRun' = NoRun
    /\ lastObs' = NoObs
    /\ failedPolls' = 0
    /\ UNCHANGED <<device, render, system>>

\* the hostname derived from the DNS section
TargetHostname(networkCfg) ==
    IF networkCfg.DNS # NIL /\ Deref(networkCfg.DNS).Hostname # ""
    THEN Deref(networkCfg.DNS).Hostname
         \o (IF Deref(networkCfg.DNS).Domain # ""
             THEN "." \o Deref(networkCfg.DNS).Domain
             ELSE "")
    ELSE ""

\* err := SetHostname(ctx, hostname)
SetHostname ==
    /\ pc = "SetHostname"
    /\ \E err \in RunCommandContext("hostnamectl") :
        /\ hostname' = IF err = OK THEN TargetHostname(Deref(cfg)) ELSE hostname
        /\ StepReturns("SetHostname", err, "UpdateEnvironment")
    /\ started' = started \cup {"SetHostname"}
    /\ UNCHANGED <<device, render, cfg, timeout, cancelled, proxyEnv, dir, timesyncFile, waiters>>

\* err = UpdateEnvironment(networkCfg.Proxy)
UpdateEnvironment ==
    /\ pc = "UpdateEnvironment"
    /\ \E err \in {OK, ErrIO("UpdateEnvironment")} :
        /\ proxyEnv' = IF err = OK THEN Deref(cfg).Proxy ELSE proxyEnv
        /\ StepReturns("UpdateEnvironment", err, "generateNetworkConfiguration")
    /\ started' = started \cup {"UpdateEnvironment"}
    /\ UNCHANGED <<device, render, cfg, timeout, cancelled, hostname, dir, timesyncFile, waiters>>

(***************************************************************************)
(* generateNetworkConfiguration                                            *)
(***************************************************************************)

\* os.WriteFile(filepath.Join(SystemdNetworkConfigPath, f.Name), f.Contents)
WriteFile(files, f) ==
    [n \in (DOMAIN files) \cup {f.Name} |->
        IF n = f.Name THEN f.Contents ELSE files[n]]

\* the files of a fresh directory after writing fs in order
RECURSIVE WriteFiles(_, _)
WriteFiles(files, fs) ==
    IF fs = <<>> THEN files ELSE WriteFiles(WriteFile(files, Head(fs)), Tail(fs))

\* the artifacts in the order the three loops write them
Artifacts(networkCfg) ==
    generateLinkFileContents(networkCfg)
    \o generateNetdevFileContents(networkCfg)
    \o generateNetworkFileContents(networkCfg)

\* ntpCfg
NtpCfg(networkCfg) ==
    IF networkCfg.NTP # NIL THEN generateTimesyncContents(Deref(networkCfg.NTP)) ELSE ""

\* The file operations of one run, in order: RemoveAll (1), Mkdir (2), one WriteFile
\* per artifact (3 .. 2+n) and, with timeservers, the WriteFile of the timesync file.
NumFileOps(networkCfg) ==
    2 + Len(Artifacts(networkCfg)) + (IF NtpCfg(networkCfg) # "" THEN 1 ELSE 0)

\* The outcome of generateNetworkConfiguration when its failAt-th file operation fails
\* (0: none fails) and the final os.Remove, whose error is dropped, fails or not.
generateNetworkConfiguration(networkCfg, dir0, timesync0, failAt, removeFails) ==
    LET fs == Artifacts(networkCfg)
        n  == Len(fs)
        written(k) == [exists |-> TRUE, files |-> WriteFiles(<<>>, SubSeq(fs, 1, k))]
    IN  IF failAt = 1
        THEN [err |-> ErrIO("RemoveAll"), dir |-> dir0, timesync |-> timesync0]
        ELSE IF failAt = 2
        THEN [err |-> ErrIO("Mkdir"), dir |-> NoDir, timesync |-> timesync0]
        ELSE IF failAt \in 3..(2 + n)
        THEN [err |-> ErrIO("WriteFile " \o fs[failAt - 2].Name),
              dir |-> written(failAt - 3), timesync |-> timesync0]
        ELSE IF failAt = n + 3
        THEN [err |-> ErrIO("WriteFile timesyncd.conf"),
              dir |-> written(n), timesync |-> timesync0]
        ELSE [err |-> OK,
              dir |-> written(n),
              timesync |-> IF NtpCfg(networkCfg) # ""
                           THEN Ptr(NtpCfg(networkCfg))
                           ELSE IF removeFails THEN timesync0 ELSE NIL]

\* the call of generateNetworkConfiguration, followed by the step `next`
GenerateThen(next) ==
    /\ pc = "generateNetworkConfiguration"
    /\ \E failAt \in 0..NumFileOps(Deref(cfg)), removeFails \in BOOLEAN :
        LET out == generateNetworkConfiguration(Deref(cfg), dir, timesyncFile,
                                                failAt, removeFails)
        IN  /\ dir' = out.dir
            /\ timesyncFile' = out.timesync
            /\ StepReturns("generateNetworkConfiguration", out.err, next)
    /\ started' = started \cup {"generateNetworkConfiguration"}
    /\ UNCHANGED <<device, render, cfg, timeout, cancelled, hostname, proxyEnv, waiters>>

\* mutant: the services are restarted without waiting for the rename
GenerateThenRestart == GenerateThen("RestartUnit systemd-networkd")

\* err = generateNetworkConfiguration(ctx, networkCfg)
Generate == GenerateThen("waitForUdevInterfaceRename")

(***************************************************************************)
(* waitForUdevInterfaceRename                                              *)
(***************************************************************************)

\* err = waitForUdevInterfaceRename(ctx, 5*time.Second): endTime := now + timeout
RenameStart ==
    /\ pc = "waitForUdevInterfaceRename"
    /\ pc' = "rename_deadline"
    /\ now' = 0
    /\ endTime' = RenameTimeout
    /\ started' = started \cup {"waitForUdevInterfaceRename"}
    /\ UNCHANGED <<device, render, cfg, timeout, cancelled, result, system, devicesToCheck, stuck,
                   completed, failed, lastRun, lastObs, failedPolls>>

\* time.Now().After(endTime)
After(t, deadline) == t > deadline

\* the deadline check that opens a cycle
RenameDeadline ==
    /\ pc = "rename_deadline"
    /\ IF After(now, endTime)
       THEN StepReturns("waitForUdevInterfaceRename", ErrRenameTimeout,
                        "RestartUnit systemd-networkd")
       ELSE /\ pc' = "rename_trigger"
            /\ UNCHANGED <<result, completed, failed>>
    /\ UNCHANGED <<device, render, cfg, timeout, cancelled, system, waiters, started>>

\* udevadm trigger --action=add
RenameTrigger ==
    /\ pc = "rename_trigger"
    /\ \E err \in RunCommandContext("udevadm trigger") :
        /\ lastRun' = [cmd |-> "udevadm trigger", err |-> err]
        /\ IF err # OK
           THEN StepReturns("waitForUdevInterfaceRename", err,
                            "RestartUnit systemd-networkd")
           ELSE /\ pc' = "rename_settle"
                /\ UNCHANGED <<result, completed, failed>>
    /\ started' = started \cup {"udevadm trigger"}
    /\ UNCHANGED <<device, render, cfg, timeout, cancelled, system, now, endTime, devicesToCheck,
                   stuck, lastObs, failedPolls>>

\* mutant: an error of udevadm settle is retried after the backoff
RenameSettleRetrying ==
    /\ pc = "rename_settle"
    /\ \E err \in RunCommandContext("udevadm settle") :
        /\ lastRun' = [cmd |-> "udevadm settle", err |-> err]
        /\ pc' = IF err # OK THEN "rename_sleep" ELSE "rename_journal"
    /\ started' = started \cup {"udevadm settle"}
    /\ UNCHANGED <<device, render, cfg, timeout, cancelled, result, completed, failed, system, now,
                   endTime, devicesToCheck, stuck, lastObs, failedPolls>>

\* udevadm settle
RenameSettle ==
    /\ pc = "rename_settle"
    /\ \E err \in RunCommandContext("udevadm settle") :
        /\ lastRun' = [cmd |-> "udevadm settle", err |-> err]
        /\ IF err # OK
           THEN StepReturns("waitForUdevInterfaceRename", err,
                            "RestartUnit systemd-networkd")
           ELSE /\ pc' = "rename_journal"
                /\ UNCHANGED <<result, completed, failed>>
    /\ started' = started \cup {"udevadm settle"}
    /\ UNCHANGED <<device, render, cfg, timeout, cancelled, system, now, endTime, devicesToCheck,
                   stuck, lastObs, failedPolls>>

\* journalctl -t kernel -g "en[[:xdigit:]]{12}: renamed from ": nil on a match, an
\* error when nothing matches or the command cannot run
RenameJournal ==
    /\ pc = "rename_journal"
    /\ \E err \in RunCommandContext("journalctl") :
        /\ lastRun' = [cmd |-> "journalctl", err |-> err]
        /\ IF err = OK
           THEN StepReturns("waitForUdevInterfaceRename", OK,
                            "RestartUnit systemd-networkd")
           ELSE /\ pc' = "rename_sleep"
                /\ UNCHANGED <<result, completed, failed>>
    /\ started' = started \cup {"journalctl"}
    /\ UNCHANGED <<device, render, cfg, timeout, cancelled, system, now, endTime, devicesToCheck,
                   stuck, lastObs, failedPolls>>

\* time.Sleep(500 * time.Millisecond)
RenameSleep ==
    /\ pc = "rename_sleep"
    /\ pc' = "rename_deadline"
    /\ \E dt \in 1..MaxSleepTicks : now' = now + dt
    /\ UNCHANGED <<device, render, cfg, timeout, cancelled, result, system, endTime, devicesToCheck,
                   stuck, started, completed, failed, lastRun, lastObs, failedPolls>>

(***************************************************************************)
(* The service restarts                                                    *)
(***************************************************************************)

\* err = RestartUnit(ctx, "systemd-networkd")
RestartNetworkd ==
    /\ pc = "RestartUnit systemd-networkd"
    /\ \E err \in RunCommandContext("systemctl restart systemd-networkd") :
        StepReturns("RestartUnit systemd-networkd", err, "RestartUnit systemd-timesyncd")
    /\ started' = started \cup {"RestartUnit systemd-networkd"}
    /\ UNCHANGED <<device, render, cfg, timeout, cancelled, system, waiters>>

\* err = RestartUnit(ctx, "systemd-timesyncd")
RestartTimesyncd ==
    /\ pc = "RestartUnit systemd-timesyncd"
    /\ \E err \in RunCommandContext("systemctl restart systemd-timesyncd") :
        StepReturns("RestartUnit systemd-timesyncd", err, "waitForNetworkOnline")
    /\ started' = started \cup {"RestartUnit systemd-timesyncd"}
    /\ UNCHANGED <<device, render, cfg, timeout, cancelled, system, waiters>>

(***************************************************************************)
(* waitForNetworkOnline                                                    *)
(***************************************************************************)

\* the devices of the three loops, in their order: interfaces, bonds, VLANs
Devices(networkCfg) ==
    [k \in 1..Len(networkCfg.Interfaces) |->
        [Name |-> networkCfg.Interfaces[k].Name,
         Addresses |-> networkCfg.Interfaces[k].Addresses]]
    \o [k \in 1..Len(networkCfg.Bonds) |->
        [Name |-> networkCfg.Bonds[k].Name,
         Addresses |-> networkCfg.Bonds[k].Addresses]]
    \o [k \in 1..Len(networkCfg.VLANs) |->
        [Name |-> networkCfg.VLANs[k].Name,
         Addresses |-> networkCfg.VLANs[k].Addresses]]

\* devicesToCheck: a map, so a later device of the same name replaces an earlier one
DevicesToCheck(networkCfg) ==
    LET devs  == Devices(networkCfg)
        kept  == {k \in 1..Len(devs) : Len(devs[k].Addresses) # 0}
        last(name) == CHOOSE k \in kept :
                          /\ devs[k].Name = name
                          /\ \A j \in kept : devs[j].Name = name => j <= k
    IN  [name \in {devs[k].Name : k \in kept} |-> Len(devs[last(name)].Addresses)]

\* What `networkctl status name` and `ip address show name` report for a device in one
\* poll cycle. statusErr/ipErr: the error of the command; state: the value of the
\* "Online state:" line; ipRun: whether the address query was issued at all; addrs: the
\* addresses the regular expression `inet6? (.+)/\d+ ` captures, in order.
LinkLocalAddr == <<"f","e","8","0",":",":","1">>
GlobalAddr4   == <<"1","0",".","0",".","0",".","2">>
GlobalAddr6   == <<"f","d","0","0",":",":","2">>
ObservableAddrs == {LinkLocalAddr, GlobalAddr4, GlobalAddr6}

\* a device holds an address once
AddrLists ==
    UNION {{a \in [1..n -> ObservableAddrs] : \A i, j \in 1..n : i # j => a[i] # a[j]} :
            n \in 0..MaxObserved}

\* what is known of a device in a pass: the answer of `networkctl status` and, once
\* `ip address show` was run, its answer
StatusFailed(err) ==
    [statusErr |-> err, state |-> "", ipRun |-> FALSE, ipErr |-> OK, addrs |-> <<>>]

StatusAnswered(st) ==
    [statusErr |-> OK, state |-> st, ipRun |-> FALSE, ipErr |-> OK, addrs |-> <<>>]

\* subprocess.RunCommandContext(ctx, "networkctl", "status", name): an error, or an
\* output with one of the online states
StatusReports ==
    {StatusFailed(err) : err \in RunCommandContext("networkctl") \ {OK}}
    \cup (IF OK \in RunCommandContext("networkctl")
          THEN {StatusAnswered(st) : st \in {"offline", "partial", "online"}}
          ELSE {})

\* subprocess.RunCommandContext(ctx, "ip", "address", "show", name), for a device whose
\* status command gave `report`: an error, or an output with a list of addresses
AddressReports(report) ==
    {[report EXCEPT !.ipRun = TRUE, !.ipErr = err] : err \in RunCommandContext("ip") \ {OK}}
    \cup (IF OK \in RunCommandContext("ip")
          THEN {[report EXCEPT !.ipRun = TRUE, !.addrs = a] : a \in AddrLists}
          ELSE {})

\* isOnline: false on an error, else whether the output holds "Online state: online"
isOnline(report) ==
    IF report.statusErr # OK THEN FALSE
    ELSE "Online state: " \o report.state = "Online state: online"

\* mutant: link-local addresses are counted too
CountAllIPs(addrs) == Len(addrs)

\* numIPs of the loop over the matches: link-local addresses are not counted
RECURSIVE CountIPs(_)
CountIPs(addrs) ==
    IF addrs = <<>> THEN 0
    ELSE (IF HasPrefix(Head(addrs), <<"f","e","8","0",":">>) THEN 0 ELSE 1)
         + CountIPs(Tail(addrs))

\* getNumberOfIPs: -1 on an error
getNumberOfIPs(report) ==
    IF report.ipErr # OK THEN -1 ELSE CountIPs(report.addrs)

\* mutant: a failed address query counts as the expected number of addresses
DeviceOnlineOrQueryFailed(report, numIPs) ==
    isOnline(report) /\ (report.ipErr # OK \/ getNumberOfIPs(report) = numIPs)

\* the condition under which the loop over devicesToCheck leaves a device behind
DeviceOnline(report, numIPs) ==
    isOnline(report) /\ getNumberOfIPs(report) = numIPs

\* mutant: the loop goes on after a device that is not online
AfterDeviceWithoutBreak(online, remaining) ==
    IF remaining = {} THEN "returned" ELSE "online_poll"

\* where the pass goes after the test of a device: `allDevicesOnline = false; break` and
\* the sleep, the next device of the range, or `return nil` at the end of the range
AfterDevice(online, remaining) ==
    IF ~online THEN "online_sleep"
    ELSE IF remaining = {} THEN "returned"
    ELSE "online_poll"

\* return waitForNetworkOnline(ctx, networkCfg, timeout): the entry, up to the loop
OnlineStart ==
    /\ pc = "waitForNetworkOnline"
    /\ pc' = "online_deadline"
    /\ now' = 0
    /\ endTime' = timeout
    /\ devicesToCheck' = DevicesToCheck(Deref(cfg))
    /\ stuck' \in SUBSET (DOMAIN DevicesToCheck(Deref(cfg)))
    /\ failedPolls' = 0
    /\ lastObs' = NoObs
    /\ started' = started \cup {"waitForNetworkOnline"}
    /\ UNCHANGED <<device, render, cfg, timeout, cancelled, result, system, completed,
                   failed, lastRun>>

\* waitForNetworkOnline returns err, and ApplyNetworkConfiguration returns it
OnlineReturns(err) ==
    /\ pc' = "returned"
    /\ result' = err
    /\ completed' = IF err = OK THEN completed \cup {"waitForNetworkOnline"} ELSE completed
    /\ failed' = IF err # OK
                 THEN Ptr([step |-> "waitForNetworkOnline", err |-> err])
                 ELSE failed

\* the deadline check that opens a cycle
OnlineDeadline ==
    /\ pc = "online_deadline"
    /\ IF After(now, endTime)
       THEN OnlineReturns(ErrOnlineTimeout)
       ELSE /\ pc' = "online_poll"
            /\ UNCHANGED <<result, completed, failed>>
    /\ UNCHANGED <<device, render, cfg, timeout, cancelled, system, waiters, started>>

\* the pass goes to `next`; at the end of the range allDevicesOnline is true
PassGoes(next) ==
    IF next = "returned"
    THEN OnlineReturns(OK)
    ELSE /\ pc' = next
         /\ UNCHANGED <<result, completed, failed>>

\* The range over devicesToCheck takes its next device, in the order the map iteration
\* takes, and isOnline runs `networkctl status` on it; an empty range ends at once.
OnlinePoll ==
    /\ pc = "online_poll"
    /\ LET remaining == (DOMAIN devicesToCheck) \ (DOMAIN lastObs)
       IN  IF remaining = {}
           THEN /\ OnlineReturns(OK)
                /\ UNCHANGED <<device, lastObs, failedPolls, started>>
           ELSE \E name \in remaining, report \in StatusReports :
                /\ lastObs' = [n \in (DOMAIN lastObs) \cup {name} |->
                                  IF n = name THEN report ELSE lastObs[n]]
                /\ failedPolls' = IF report.statusErr # OK
                                  THEN failedPolls + 1 ELSE failedPolls
                /\ started' = started \cup {"networkctl status"}
                /\ IF isOnline(report)
                   THEN /\ pc' = "online_ip"
                        /\ device' = name
                        /\ UNCHANGED <<result, completed, failed>>
                   ELSE /\ PassGoes(AfterDevice(FALSE, remaining \ {name}))
                        /\ device' = ""
    /\ UNCHANGED <<render, cfg, timeout, cancelled, system, now, endTime, devicesToCheck,
                   stuck, lastRun>>

\* getNumberOfIPs runs `ip address show` on the device that isOnline found online, and
\* the count is tested against the number of addresses the device declares; a device in
\* stuck never shows that number
OnlineAddresses ==
    /\ pc = "online_ip"
    /\ \E report \in AddressReports(lastObs[device]) :
        /\ device \in stuck =>
              ~(/\ report.ipErr = OK
                /\ Cardinality({k \in 1..Len(report.addrs) :
                       ~HasPrefix(report.addrs[k], <<"f","e","8","0",":">>)})
                   = devicesToCheck[device])
        /\ lastObs' = [lastObs EXCEPT ![device] = report]
        /\ failedPolls' = IF report.ipErr # OK THEN failedPolls + 1 ELSE failedPolls
        /\ PassGoes(AfterDevice(DeviceOnline(report, devicesToCheck[device]),
                                (DOMAIN devicesToCheck) \ (DOMAIN lastObs)))
    /\ device' = ""
    /\ started' = started \cup {"ip address show"}
    /\ UNCHANGED <<render, cfg, timeout, cancelled, system, now, endTime, devicesToCheck,
                   stuck, lastRun>>

\* time.Sleep(500 * time.Millisecond)
OnlineSleep ==
    /\ pc = "online_sleep"
    /\ pc' = "online_deadline"
    /\ \E dt \in 1..MaxSleepTicks : now' = now + dt
    /\ lastObs' = NoObs
    /\ UNCHANGED <<device, render, cfg, timeout, cancelled, result, system, endTime, devicesToCheck,
                   stuck, started, completed, failed, lastRun, failedPolls>>

(***************************************************************************)
(* The caller and the context                                              *)
(***************************************************************************)

\* ApplyNetworkConfiguration has returned; the caller may call again
Return ==
    /\ pc = "returned"
    /\ pc' = "idle"
    /\ UNCHANGED <<device, render, cfg, timeout, cancelled, result, system, waiters, started,
                   completed, failed>>

\* ctx is cancelled while the call runs
Cancel ==
    /\ pc \notin {"idle", "returned"}
    /\ ~cancelled
    /\ cancelled' = TRUE
    /\ UNCHANGED <<device, render, pc, cfg, timeout, result, system, waiters, started, completed, failed>>

Next ==
    \/ \E networkCfg \in Configs, t \in Timeouts : Call(networkCfg, t)
    \/ SetHostname
    \/ UpdateEnvironment
    \/ Generate
    \/ RenameStart
    \/ RenameDeadline
    \/ RenameTrigger
    \/ RenameSettle
    \/ RenameJournal
    \/ RenameSleep
    \/ RestartNetworkd
    \/ RestartTimesyncd
    \/ OnlineStart
    \/ OnlineDeadline
    \/ OnlinePoll
    \/ OnlineAddresses
    \/ OnlineSleep
    \/ Return
    \/ Cancel

Spec == Init /\ [][Next]_vars

\* the thread of control keeps running: a waiter neither stops between two polls nor
\* sleeps for ever
FairSpec ==
    /\ Spec
    /\ WF_vars(OnlineDeadline)
    /\ WF_vars(OnlinePoll)
    /\ WF_vars(OnlineAddresses)
    /\ WF_vars(OnlineSleep)
    /\ WF_vars(RenameDeadline)
    /\ WF_vars(RenameTrigger)
    /\ WF_vars(RenameSettle)
    /\ WF_vars(RenameJournal)
    /\ WF_vars(RenameSleep)

(***************************************************************************)
(* The rendering helpers called on their own                               *)
(***************************************************************************)

\* the longest additionalVLANTags, vlans and addresses a helper is called with
MaxTags == 3
MaxVLANs == 2
MaxAddresses == 2

\* an IPv6 literal in the mixed notation of an embedded IPv4 address
Mapped6 == <<":",":","f","f","f","f",":","1","0",".","0",".","0",".","2","/","1","2","8">>

\* the sequences over S of length at most n
SeqsUpTo(S, n) == UNION {[1..k -> S] : k \in 0..n}

\* a VLAN definition as generateBridgeVLANContents reads it
VLANEntry(parent, id) ==
    [Name |-> "vl" \o ToString(id), Parent |-> parent, ID |-> id, MTU |-> 0,
     Addresses |-> <<>>, Routes |-> <<>>]

\* the calls generateBridgeVLANContents("br0", specificVLAN, additionalVLANTags, vlans)
BridgeVLANCalls ==
    {[fn |-> "generateBridgeVLANContents",
      args |-> [bridgeName |-> "br0", specificVLAN |-> pv,
                additionalVLANTags |-> tags, vlans |-> vl],
      done |-> FALSE, ret |-> ""] :
        pv \in {0, 20},
        tags \in SeqsUpTo({10, 20, 30}, MaxTags),
        vl \in SeqsUpTo({VLANEntry(parent, id) : parent \in {"br0", "br1"}, id \in {10, 30}},
                        MaxVLANs)}

\* the calls generateLinkSectionContents(addresses)
LinkSectionCalls ==
    {[fn |-> "generateLinkSectionContents",
      args |-> [addresses |-> addrs],
      done |-> FALSE, ret |-> ""] :
        addrs \in SeqsUpTo({DHCP4, DHCP6, SLAAC, Static4, Static6, Mapped6}, MaxAddresses)}

RenderInit ==
    /\ pc = "idle"
    /\ cfg = NIL
    /\ timeout = 1
    /\ cancelled = FALSE
    /\ result = NoResult
    /\ hostname = ""
    /\ proxyEnv = NIL
    /\ dir = NoDir
    /\ timesyncFile = NIL
    /\ now = 0
    /\ endTime = 0
    /\ devicesToCheck = <<>>
    /\ stuck = {}
    /\ started = {}
    /\ completed = {}
    /\ failed = NIL
    /\ lastRun = NoRun
    /\ lastObs = NoObs
    /\ failedPolls = 0
    /\ device = ""
    /\ render \in BridgeVLANCalls \cup LinkSectionCalls

\* ret := generateBridgeVLANContents(bridgeName, specificVLAN, additionalVLANTags, vlans)
RenderBridgeVLAN ==
    /\ render.fn = "generateBridgeVLANContents"
    /\ ~render.done
    /\ render' = [render EXCEPT
                    !.done = TRUE,
                    !.ret = generateBridgeVLANContents(render.args.bridgeName,
                                                       render.args.specificVLAN,
                                                       render.args.additionalVLANTags,
                                                       render.args.vlans)]
    /\ UNCHANGED <<device, pc, cfg, timeout, cancelled, result, system, waiters, started,
                   completed, failed>>

\* ret := generateLinkSectionContents(addresses)
RenderLinkSection ==
    /\ render.fn = "generateLinkSectionContents"
    /\ ~render.done
    /\ render' = [render EXCEPT
                    !.done = TRUE,
                    !.ret = generateLinkSectionContents(render.args.addresses)]
    /\ UNCHANGED <<device, pc, cfg, timeout, cancelled, result, system, waiters, started,
                   completed, failed>>

RenderNext ==
    \/ RenderBridgeVLAN
    \/ RenderLinkSection

RenderSpec == RenderInit /\ [][RenderNext]_vars

(***************************************************************************)
(* Properties                                                              *)
(***************************************************************************)

\* the position of a step in Steps
StepIndex(step) == CHOOSE k \in 1..Len(Steps) : Steps[k] = step

\* the commands a step runs, by the step
CommandsOf(step) ==
    IF step = "waitForUdevInterfaceRename"
    THEN {"udevadm trigger", "udevadm settle", "journalctl"}
    ELSE IF step = "waitForNetworkOnline"
    THEN {"networkctl status", "ip address show"}
    ELSE {}

\* C1: the steps of a call are issued in the order hostname, proxy environment, artifact
\* write, rename wait, restart of systemd-networkd, restart of systemd-timesyncd, online
\* wait, and a step (and any command it runs) is issued only after every earlier step has
\* returned success; so a restart is issued only after the artifacts are written and the
\* rename wait has returned.
C1_StepsInOrder ==
    \A k \in 1..Len(Steps) :
        (Steps[k] \in started \/ CommandsOf(Steps[k]) \cap started # {})
        => /\ Steps[k] \in started
           /\ \A j \in 1..(k - 1) : Steps[j] \in started /\ Steps[j] \in completed

C1_Witness ==
    /\ pc = "returned"
    /\ result = OK
    /\ cfg = Ptr(CfgVLANs)
    /\ completed = {Steps[k] : k \in 1..Len(Steps)}
    /\ started = {Steps[k] : k \in 1..Len(Steps)}
                 \cup CommandsOf("waitForUdevInterfaceRename")
                 \cup CommandsOf("waitForNetworkOnline")

\* C2: when a step fails, the call returns exactly that step's error and no later step
\* and no command of a later step is issued; after a failed artifact write no udevadm,
\* journalctl, restart, networkctl or ip command is issued.
C2_FailureAborts ==
    failed # NIL =>
        LET f == Deref(failed)
        IN  /\ pc \in {"returned", "idle"}
            /\ result = f.err
            /\ f.step \in started
            /\ f.step \notin completed
            /\ \A j \in (StepIndex(f.step) + 1)..Len(Steps) :
                   /\ Steps[j] \notin started
                   /\ Steps[j] \notin completed
                   /\ CommandsOf(Steps[j]) \cap started = {}

C2_Witness ==
    /\ pc = "returned"
    /\ failed # NIL
    /\ Deref(failed).step = "generateNetworkConfiguration"
    /\ result = ErrIO("WriteFile 22-lan.network")
    /\ started = {"SetHostname", "UpdateEnvironment", "generateNetworkConfiguration"}

\* C3: a call with a nil configuration returns the error "no network configuration
\* provided" at once: no step and no command is issued, and hostname, proxy environment,
\* configuration directory and time-sync file are left as they were.
C3_NilConfig ==
    [][(pc = "idle" /\ pc' # "idle" /\ cfg' = NIL)
        => /\ pc' = "returned"
           /\ result' = ErrNoConfig
           /\ started' = {}
           /\ completed' = {}
           /\ hostname' = hostname
           /\ proxyEnv' = proxyEnv
           /\ dir' = dir
           /\ timesyncFile' = timesyncFile]_vars

C3_Witness ==
    /\ pc = "returned"
    /\ cfg = NIL
    /\ result = ErrNoConfig
    /\ started = {}
    /\ hostname = "host1.example.org"
    /\ dir.exists
    /\ timesyncFile # NIL

\* the number of addresses of a report that do not start with fe80:
NonLinkLocal(addrs) ==
    Cardinality({k \in 1..Len(addrs) :
        ~(Len(addrs[k]) >= 5 /\ SubSeq(addrs[k], 1, 5) = <<"f","e","8","0",":">>)})

\* the device reported link-online and n addresses that are not link-local
ReportedReady(report, n) ==
    /\ report.statusErr = OK
    /\ report.state = "online"
    /\ report.ipRun
    /\ report.ipErr = OK
    /\ NonLinkLocal(report.addrs) = n

\* C4: waitForNetworkOnline returns success only when, in its last poll cycle, every
\* interface, bond and VLAN that declares at least one address reported link-online with
\* as many addresses not starting with fe80: as it declares; a device that declares no
\* address is never queried.
C4_OnlineOnlyWhenAllReady ==
    /\ (pc = "returned" /\ result = OK) =>
          \A k \in 1..Len(Devices(Deref(cfg))) :
              LET d == Devices(Deref(cfg))[k]
              IN  Len(d.Addresses) >= 1 =>
                      /\ d.Name \in DOMAIN lastObs
                      /\ ReportedReady(lastObs[d.Name], Len(d.Addresses))
    /\ \A name \in DOMAIN lastObs :
          \E k \in 1..Len(Devices(Deref(cfg))) :
              /\ Devices(Deref(cfg))[k].Name = name
              /\ Len(Devices(Deref(cfg))[k].Addresses) >= 1

C4_Witness ==
    /\ pc = "returned"
    /\ result = OK
    /\ cfg = Ptr(CfgSingle)
    /\ DOMAIN lastObs = {"br0"}
    /\ lastObs["br0"].addrs = <<LinkLocalAddr, GlobalAddr4>>

\* C5: when a device with declared addresses never reports the expected state during the
\* wait, waitForNetworkOnline never returns success and eventually returns the timeout
\* error, whatever the other devices report.
C5_UnmetDeviceTimesOut ==
    /\ [](stuck # {} => result # OK)
    /\ ((pc = "online_deadline" /\ stuck # {})
            ~> (pc = "returned" /\ result = ErrOnlineTimeout))

C5_Witness ==
    /\ pc = "returned"
    /\ result = ErrOnlineTimeout
    /\ stuck = {"lan"}
    /\ DOMAIN devicesToCheck = {"lan", "vllan"}
    /\ ~cancelled

\* C6: once ctx is cancelled, the next command a waiter runs makes the waiter return a
\* failure (the log inspection, whose error only means no match, leads to the next cycle,
\* where the trigger fails).
C6_CancelEndsWaiter ==
    [][(cancelled /\ pc \in {"rename_trigger", "rename_settle", "online_poll", "online_ip"})
        => (pc' = "returned" /\ result' \notin {OK, NoResult})]_vars

\* C7: a poll cycle of waitForNetworkOnline in which a status or address query fails
\* returns nothing: the waiter sleeps and polls again, and its result is never the error
\* of a query.
C7_QueryFailureIsRetried ==
    [][(pc \in {"online_poll", "online_ip"})
        => /\ result' \in {result, OK}
           /\ failedPolls' > failedPolls
                => (pc' = "online_sleep" /\ result' = result /\ failed' = failed)]_vars

C7_Witness ==
    /\ pc = "returned"
    /\ result = OK
    /\ failedPolls >= 1
    /\ DOMAIN lastObs = DOMAIN devicesToCheck
    /\ devicesToCheck # <<>>

\* C8: a cycle of waitForUdevInterfaceRename opens with the deadline check, which returns
\* the timeout error once the deadline has passed, then runs trigger, settle and the log
\* inspection in this order; an error of trigger or settle is returned at once, a match
\* of the log inspection returns success, no match sleeps and opens the next cycle.
C8_RenameCycle ==
    [][/\ (pc = "rename_deadline" /\ pc' # pc)
            => IF now > endTime
               THEN pc' = "returned" /\ result' = ErrRenameTimeout /\ lastRun' = lastRun
               ELSE pc' = "rename_trigger" /\ result' = result
       /\ (pc = "rename_trigger" /\ pc' # pc)
            => /\ lastRun'.cmd = "udevadm trigger"
               /\ IF lastRun'.err # OK
                  THEN pc' = "returned" /\ result' = lastRun'.err
                  ELSE pc' = "rename_settle" /\ result' = result
       /\ (pc = "rename_settle" /\ pc' # pc)
            => /\ lastRun'.cmd = "udevadm settle"
               /\ IF lastRun'.err # OK
                  THEN pc' = "returned" /\ result' = lastRun'.err
                  ELSE pc' = "rename_journal" /\ result' = result
       /\ (pc = "rename_journal" /\ pc' # pc)
            => /\ lastRun'.cmd = "journalctl"
               /\ IF lastRun'.err = OK
                  THEN /\ "waitForUdevInterfaceRename" \in completed'
                       /\ pc' = "RestartUnit systemd-networkd"
                  ELSE pc' = "rename_sleep"
               /\ result' = result
       /\ (pc = "rename_sleep" /\ pc' # pc)
            => pc' = "rename_deadline" /\ now' > now /\ result' = result
       /\ (result' = ErrRenameTimeout /\ result # ErrRenameTimeout)
            => pc = "rename_deadline"
       /\ (lastRun' # lastRun /\ lastRun'.cmd = "journalctl")
            => lastRun = [cmd |-> "udevadm settle", err |-> OK]
       /\ (lastRun' # lastRun /\ lastRun'.cmd = "udevadm settle")
            => lastRun = [cmd |-> "udevadm trigger", err |-> OK]]_vars

C8_Witness ==
    /\ pc = "returned"
    /\ result = ErrRenameTimeout
    /\ lastRun = [cmd |-> "journalctl", err |-> ErrExit("journalctl")]
    /\ now > RenameTimeout

\* the names of interfaces, bonds and VLANs are unique across the configuration
NamesUnique(networkCfg) ==
    \A i, j \in 1..Len(Devices(networkCfg)) :
        i # j => Devices(networkCfg)[i].Name # Devices(networkCfg)[j].Name

\* C9: after generateNetworkConfiguration has returned success, the files of the
\* configuration directory are exactly the artifacts synthesized from the configuration.
C9_DirectoryHoldsArtifacts ==
    "generateNetworkConfiguration" \in completed =>
        /\ dir.exists
        /\ {[Name |-> n, Contents |-> dir.files[n]] : n \in DOMAIN dir.files}
           = {Artifacts(Deref(cfg))[k] : k \in 1..Len(Artifacts(Deref(cfg)))}

\* C10: when the names of interfaces, bonds and VLANs are unique across the
\* configuration, the names of the synthesized artifacts are pairwise distinct.
C10_DistinctArtifactNames ==
    (cfg # NIL /\ NamesUnique(Deref(cfg))) =>
        \A i, j \in 1..Len(Artifacts(Deref(cfg))) :
            i # j => Artifacts(Deref(cfg))[i].Name # Artifacts(Deref(cfg))[j].Name

\* C11: after generateNetworkConfiguration has returned success, the time-sync
\* fallback file is present if and only if the configuration has an NTP section with
\* at least one timeserver, whatever applies came before.
C11_TimesyncFileIffTimeservers ==
    "generateNetworkConfiguration" \in completed =>
        (timesyncFile # NIL
            <=> (Deref(cfg).NTP # NIL /\ Len(Deref(Deref(cfg).NTP).Timeservers) >= 1))

\* the set of tags of a bridge: the nonzero primary VLAN id, the additional tags and
\* the ids of the VLAN definitions whose Parent is the bridge
TagSet(args) ==
    (IF args.specificVLAN # 0 THEN {args.specificVLAN} ELSE {})
    \cup {args.additionalVLANTags[k] : k \in 1..Len(args.additionalVLANTags)}
    \cup {args.vlans[k].ID : k \in {j \in 1..Len(args.vlans) :
                                        args.vlans[j].Parent = args.bridgeName}}

\* one VLAN block per element of S, in ascending order
RECURSIVE AscendingVLANBlocks(_)
AscendingVLANBlocks(S) ==
    IF S = {} THEN ""
    ELSE LET least == CHOOSE x \in S : \A y \in S : x <= y
         IN  "\n[BridgeVLAN]\nVLAN=" \o ToString(least) \o "\n"
             \o AscendingVLANBlocks(S \ {least})

\* the block of the primary VLAN that precedes the VLAN blocks
PrimaryVLANBlock(specificVLAN) ==
    IF specificVLAN # 0
    THEN "\n[BridgeVLAN]\nPVID=" \o ToString(specificVLAN)
         \o "\nEgressUntagged=" \o ToString(specificVLAN) \o "\n"
    ELSE ""

\* C12: generateBridgeVLANContents renders, after the block of a nonzero primary VLAN,
\* one VLAN block per element of the set of the bridge's tags, ascending and each tag
\* once; the output is a function of that set and the primary VLAN id alone, so the
\* order and the duplicates of the tag list and of the VLAN definitions do not matter.
C12_BridgeVLANBlocksPerTag ==
    (render.fn = "generateBridgeVLANContents" /\ render.done) =>
        render.ret = PrimaryVLANBlock(render.args.specificVLAN)
                     \o AscendingVLANBlocks(TagSet(render.args))

\* primary 20, tags [30,20,10] and one VLAN definition with id 30: exactly 10, 20, 30
C12_Witness ==
    /\ render.fn = "generateBridgeVLANContents"
    /\ render.done
    /\ render.args.specificVLAN = 20
    /\ render.args.additionalVLANTags = <<30, 20, 10>>
    /\ render.args.vlans = <<VLANEntry("br0", 30)>>
    /\ render.ret = "\n[BridgeVLAN]\nPVID=20\nEgressUntagged=20\n"
                    \o "\n[BridgeVLAN]\nVLAN=10\n"
                    \o "\n[BridgeVLAN]\nVLAN=20\n"
                    \o "\n[BridgeVLAN]\nVLAN=30\n"

\* an entry of the IPv4 family: dhcp4, or an IPv4 literal (dotted, without a colon)
IsIPv4Entry(addr) ==
    \/ Str(addr) = "dhcp4"
    \/ /\ Str(addr) \notin {"dhcp4", "dhcp6", "slaac"}
       /\ ContainsChar(addr, ".")
       /\ ~ContainsChar(addr, ":")

\* an entry of the IPv6 family: dhcp6, slaac, or an IPv6 literal (it has a colon,
\* also when it embeds an IPv4 address in dotted notation)
IsIPv6Entry(addr) ==
    \/ Str(addr) \in {"dhcp6", "slaac"}
    \/ /\ Str(addr) \notin {"dhcp4", "dhcp6", "slaac"}
       /\ ContainsChar(addr, ":")

\* C13: the link policy rendered for an address list is RequiredForOnline=no when the
\* list is empty, and otherwise RequiredForOnline=yes with RequiredFamilyForOnline
\* ipv4 when only IPv4 entries are present, ipv6 when only IPv6 entries are present,
\* and both when entries of both families are present.
C13_RequiredFamilyFollowsEntries ==
    (render.fn = "generateLinkSectionContents" /\ render.done) =>
        LET addresses == render.args.addresses
            has4 == \E k \in 1..Len(addresses) : IsIPv4Entry(addresses[k])
            has6 == \E k \in 1..Len(addresses) : IsIPv6Entry(addresses[k])
        IN  render.ret =
                IF Len(addresses) = 0 THEN "RequiredForOnline=no"
                ELSE "RequiredForOnline=yes\nRequiredFamilyForOnline="
                     \o (IF has4 /\ has6 THEN "both"
                         ELSE IF has4 THEN "ipv4"
                         ELSE "ipv6")

====
